---- MODULE Spec2Model ----
(***************************************************************************)
(* FatSecret MCP server (src/src/server.ts) and OAuth console utility      *)
(* (src/src/cli.ts): credential store, tool handlers and the three-legged  *)
(* OAuth 1.0a token exchange, as a state machine.                          *)
(*                                                                         *)
(* Strings are TLA+ strings.  The JavaScript value undefined (an absent    *)
(* object key) is the sentinel Undefined; "" is the empty string.  Both    *)
(* are falsy, every other string is truthy.                                *)
(***************************************************************************)
EXTENDS Integers, Sequences, FiniteSets, TLC

VARIABLES env, files, config, inv, calls, cli, http, fn

vars == <<env, files, config, inv, calls, cli, http, fn>>

\* ------------------------------------------------------------------ bounds
\* Number of tool invocations the MCP client starts in one run.
MaxCalls == 2

\* Longest key and largest number of keys of the parameter mappings given to
\* createSignatureBaseString on its own.
MaxKeyLen == 2
MaxParams == 2

\* ------------------------------------------------------------------ values
Undefined == "<undefined>"

Truthy(v) == v # Undefined /\ v # ""

\* The two concurrently running CallTool handlers of the server process.
Slots == {1, 2}

ConfigKeys == {"clientId", "clientSecret", "accessToken", "accessTokenSecret", "userId"}

\* The object the constructor builds from process.env.
DefaultConfig(e) ==
  [clientId          |-> e.CLIENT_ID,
   clientSecret      |-> e.CLIENT_SECRET,
   accessToken       |-> Undefined,
   accessTokenSecret |-> Undefined,
   userId            |-> Undefined]

\* configPath of the two programs.
ServerConfigPath == ".fatsecret-nutrition-config.json"
CliConfigPath    == ".fatsecret-mcp-config.json"

Paths == {ServerConfigPath, CliConfigPath}

\* Content of a file: missing, truncated to length 0 by a write in progress
\* (not parsable), a JSON object (a key whose value is Undefined is absent),
\* or "corrupt": a shorter text written over a longer one, whose tail remains
\* after it (not parsable; data is the longer object, kept for its length).
EmptyObject == [k \in ConfigKeys |-> Undefined]
FileMissing == [kind |-> "missing", data |-> EmptyObject]
FilePartial == [kind |-> "partial", data |-> EmptyObject]

\* JSON.stringify(this.config, null, 2): keys whose value is undefined are
\* dropped, every other key (the empty string included) is written.
JsonStringify(cfg) == [kind |-> "json", data |-> [k \in ConfigKeys |-> cfg[k]]]

\* Length of the text JSON.stringify(obj, null, 2) returns: "{}" for no key,
\* else "{", one line of two spaces, "key": "value" per key, "," between
\* lines, and "}".
EntryLength(key, value) ==
  IF value = Undefined THEN 0 ELSE Len(key) + Len(value) + 10

JsonLength(data) ==
  2 + EntryLength("clientId", data.clientId)
    + EntryLength("clientSecret", data.clientSecret)
    + EntryLength("accessToken", data.accessToken)
    + EntryLength("accessTokenSecret", data.accessTokenSecret)
    + EntryLength("userId", data.userId)

FileSize(file) ==
  IF file.kind \in {"json", "corrupt"} THEN JsonLength(file.data) ELSE 0

\* The write of fs.writeFile always lands on the file as it is now, whoever
\* truncated it: the write replaces the file's first bytes and does not
\* truncate again. It lands on the empty file its own open left, or on the
\* text another writeFile put there since: a text no shorter replaces that
\* one, a shorter text leaves the other's tail behind it.
WriteFile(file, text) ==
  IF FileSize(file) <= FileSize(text) THEN text
  ELSE [kind |-> "corrupt", data |-> file.data]

\* { ...this.config, ...JSON.parse(configData) }: keys present in the file
\* replace the in-memory ones, keys absent from the file keep the in-memory
\* value.
SpreadMerge(cfg, data) ==
  [k \in ConfigKeys |-> IF data[k] # Undefined THEN data[k] ELSE cfg[k]]

\* loadConfig: readFile + JSON.parse inside try; any failure is swallowed and
\* this.config is left as it was.
LoadConfig(cfg, file) ==
  IF file.kind = "json" THEN SpreadMerge(cfg, file.data) ELSE cfg

\* ---------------------------------------------------------------- results
NoResult == [kind |-> "none", code |-> "", text |-> <<>>]
Ok(text) == [kind |-> "ok", code |-> "", text |-> text]
McpError(code, text) == [kind |-> "error", code |-> code, text |-> text]

\* --------------------------------------------------------------- requests
\* A request as signed and sent: the endpoint, the HTTP method, the consumer
\* key and the two secrets of the signing key, oauth_token (Undefined when
\* the parameter is not added) and the business parameters.
NoParams == [k \in {} |-> Undefined]

NoRequest ==
  [endpoint |-> "none", httpMethod |-> "", consumerKey |-> Undefined,
   clientSecret |-> Undefined, oauthToken |-> Undefined,
   tokenSecret |-> "", nonce |-> 0, params |-> NoParams]

\* A default parameter (tokenSecret: string = "") takes its default when the
\* argument is undefined.
DefaultEmpty(v) == IF v = Undefined THEN "" ELSE v

\* The console process, as a caller of makeOAuthRequest beside the handlers
\* of the server's slots.
Console == Cardinality(Slots) + 1

RequestsSent(who) == IF who = Console THEN cli.nreq ELSE inv[who].nreq

\* generateNonce: crypto.randomBytes(16) in hex. The values of the random
\* source are taken as never repeating, and a value is named by its draw:
\* the caller and the number of requests the caller has sent.
\* generateTimestamp reads the clock in the same two lines; the clock is not
\* part of the state.
\* (GenerateNonce_Cached: the value of the caller's first draw is used
\* again.)
GenerateNonce_Cached(who) == who

GenerateNonce(who) == who + Console * RequestsSent(who)

\* makeOAuthRequest: the request as signed and sent (server and console).
OAuthRequest(who, cfg, method, endpoint, params, token, tokenSecret) ==
  [endpoint     |-> endpoint,
   httpMethod   |-> method,
   consumerKey  |-> cfg.clientId,
   clientSecret |-> cfg.clientSecret,
   oauthToken   |-> IF Truthy(token) THEN token ELSE Undefined,
   tokenSecret  |-> DefaultEmpty(tokenSecret),
   nonce        |-> GenerateNonce(who),
   params       |-> params]

\* makeApiRequest of the server: oauth_token only with useAccessToken and
\* both stored token fields; the token secret whenever useAccessToken.
\* (ApiRequest_IgnoresFlag: useAccessToken is taken as true.)
ApiRequest_IgnoresFlag(who, cfg, method, params, useAccessToken) ==
  [endpoint     |-> "api",
   httpMethod   |-> method,
   consumerKey  |-> cfg.clientId,
   clientSecret |-> cfg.clientSecret,
   oauthToken   |-> IF Truthy(cfg.accessToken) /\ Truthy(cfg.accessTokenSecret)
                    THEN cfg.accessToken ELSE Undefined,
   tokenSecret  |-> DefaultEmpty(cfg.accessTokenSecret),
   nonce        |-> GenerateNonce(who),
   params       |-> params @@ [format |-> "json"]]

ApiRequest(who, cfg, method, params, useAccessToken) ==
  [endpoint     |-> "api",
   httpMethod   |-> method,
   consumerKey  |-> cfg.clientId,
   clientSecret |-> cfg.clientSecret,
   oauthToken   |-> IF useAccessToken /\ Truthy(cfg.accessToken)
                        /\ Truthy(cfg.accessTokenSecret)
                    THEN cfg.accessToken ELSE Undefined,
   tokenSecret  |-> IF useAccessToken
                    THEN DefaultEmpty(cfg.accessTokenSecret) ELSE "",
   nonce        |-> GenerateNonce(who),
   params       |-> params @@ [format |-> "json"]]

\* allParams = { ...params, ...oauthParams }: the parameters the signature
\* is computed over; a key of oauthParams replaces the same key of params.
\* oauth_token is a key only when the code adds it.
OAuthParams(req) ==
  [oauth_consumer_key     |-> req.consumerKey,
   oauth_nonce            |-> req.nonce,
   oauth_signature_method |-> "HMAC-SHA1",
   oauth_timestamp        |-> "now",
   oauth_version          |-> "1.0"]
  @@ (IF req.oauthToken # Undefined THEN [oauth_token |-> req.oauthToken]
      ELSE NoParams)

AllParams(req) == OAuthParams(req) @@ req.params

\* Keys whose value is a string the code has built with toString() or
\* toString("hex") (a number in the model).
NumberKeys == {"oauth_nonce", "max_results", "date", "quantity"}

\* percentEncode(parameters[key]) in createSignatureBaseString:
\* encodeURIComponent turns its argument into a string first, undefined
\* into "undefined".
SignedValue(key, value) ==
  IF key \in NumberKeys THEN value
  ELSE IF value = Undefined THEN "undefined" ELSE value

\* querystring.stringify(allParams): a value that is not a string, number,
\* bigint or boolean is written as the empty string.
TransmittedValue(key, value) ==
  IF key \in NumberKeys THEN value
  ELSE IF value = Undefined THEN "" ELSE value

\* The key/value pairs of the signature base string.
SignedPairs(req) ==
  [k \in DOMAIN AllParams(req) |-> SignedValue(k, AllParams(req)[k])]

\* The key/value pairs of the query string or form body: allParams after
\* allParams.oauth_signature = signature.
TransmittedPairs(req) ==
  [k \in DOMAIN AllParams(req) |-> TransmittedValue(k, AllParams(req)[k])]
  @@ [oauth_signature |-> "signature"]

\* -------------------------------------------------------------- responses
\* status is "ok" (response.ok), "http_error" (any other status) or
\* "network_error" (fetch rejects); httpStatus is response.status and text the
\* raw body of a response that is not ok; the body of an ok response is given
\* by the keys parsed from it.
NoResponse ==
  [status |-> "none", httpStatus |-> "", text |-> "", oauth_token |-> Undefined,
   oauth_token_secret |-> Undefined, user_id |-> Undefined]

TransportFailures ==
  {[NoResponse EXCEPT !.status = "http_error", !.httpStatus = "401",
                      !.text = "oauth_problem=signature_invalid"],
   [NoResponse EXCEPT !.status = "network_error"]}

\* 2xx bodies of the request-token endpoint.
RequestTokenBodies ==
  {[status |-> "ok", httpStatus |-> "200", text |-> "", oauth_token |-> t,
    oauth_token_secret |-> s, user_id |-> Undefined] :
      <<t, s>> \in {<<"rt1", "rts1">>, <<"rt1", Undefined>>,
                    <<Undefined, "rts1">>}}

\* 2xx bodies of the access-token endpoint.
AccessTokenBodies ==
  {[status |-> "ok", httpStatus |-> "200", text |-> "", oauth_token |-> t,
    oauth_token_secret |-> s, user_id |-> u] :
      <<t, s, u>> \in {<<"at1", "ats1", "u1">>, <<"at1", "ats1", Undefined>>,
                       <<"at1", Undefined, "u1">>, <<Undefined, "ats1", "u1">>}}

\* 2xx body of the REST endpoint.
ApiBodies ==
  {[NoResponse EXCEPT !.status = "ok", !.httpStatus = "200"]}

\* A request throws instead of returning the parsed body: fetch rejects, or
\* !response.ok.
Failed_HttpOnly(r) == r.status = "http_error"

Failed(r) == r.status # "ok"

\* The message of the Error a request ends with when the response is not ok:
\* `${prefix} ${response.status} - ${text}` for a status outside 2xx, the
\* message of fetch's own error when fetch rejects.
ThrownError_StatusOnly(prefix, r) ==
  IF r.status = "http_error" THEN <<prefix, r.httpStatus>>
  ELSE <<"fetch failed">>

ThrownError(prefix, r) ==
  IF r.status = "http_error" THEN <<prefix, r.httpStatus, r.text>>
  ELSE <<"fetch failed">>

ResponsesFor(endpoint) ==
  TransportFailures \cup
  (CASE endpoint = "request_token" -> RequestTokenBodies
     [] endpoint = "access_token"  -> AccessTokenBodies
     [] OTHER                      -> ApiBodies)

\* ---------------------------------------------------------------- strings
\* A string handled character by character is a sequence of one-character
\* strings. Ascii: the printable characters in the order of their codes,
\* from 32 (space) to 126 (<34>, <92> and <96> stand for the double quote,
\* the backslash and the backquote).
Ascii ==
  <<" ", "!", "<34>", "#", "$", "%", "&", "'", "(", ")", "*", "+", ",",
    "-", ".", "/", "0", "1", "2", "3", "4", "5", "6", "7", "8", "9",
    ":", ";", "<", "=", ">", "?", "@", "A", "B", "C", "D", "E", "F",
    "G", "H", "I", "J", "K", "L", "M", "N", "O", "P", "Q", "R", "S",
    "T", "U", "V", "W", "X", "Y", "Z", "[", "<92>", "]", "^", "_", "<96>",
    "a", "b", "c", "d", "e", "f", "g", "h", "i", "j", "k", "l", "m",
    "n", "o", "p", "q", "r", "s", "t", "u", "v", "w", "x", "y", "z",
    "{", "|", "}", "~">>

CharCode(c) == 31 + (CHOOSE n \in DOMAIN Ascii : Ascii[n] = c)

Digit(d) == Ascii[d + 17]

\* Number.prototype.toString() of an integer.
RECURSIVE DigitsOf(_)
DigitsOf(n) ==
  IF n < 10 THEN <<Digit(n)>> ELSE DigitsOf(n \div 10) \o <<Digit(n % 10)>>

NumberToString(n) == IF n < 0 THEN <<"-">> \o DigitsOf(-n) ELSE DigitsOf(n)

\* String.prototype.toUpperCase().
ToUpperCase(str) ==
  [n \in DOMAIN str |->
     IF CharCode(str[n]) \in 97..122 THEN Ascii[CharCode(str[n]) - 63]
     ELSE str[n]]

\* percentEncode: encodeURIComponent keeps letters, digits and - _ . ! ~ * '
\* ( ), and the replace that follows escapes ! ' ( ) * as well; every other
\* character becomes % and its code in two upper-case hexadecimal digits.
Unreserved(c) ==
  CharCode(c) \in (48..57) \cup (65..90) \cup (97..122) \cup {45, 46, 95, 126}

HexDigit(d) == IF d < 10 THEN Digit(d) ELSE Ascii[d + 24]

PercentEncodeChar(c) ==
  IF Unreserved(c) THEN <<c>>
  ELSE <<"%", HexDigit(CharCode(c) \div 16), HexDigit(CharCode(c) % 16)>>

RECURSIVE PercentEncode(_)
PercentEncode(str) ==
  IF str = <<>> THEN <<>>
  ELSE PercentEncodeChar(Head(str)) \o PercentEncode(Tail(str))

\* The order of Array.prototype.sort() without a comparator: strings by
\* their code units.
RECURSIVE StringLess(_, _)
StringLess(a, b) ==
  IF a = <<>> THEN b # <<>>
  ELSE IF b = <<>> THEN FALSE
  ELSE IF Head(a) = Head(b) THEN StringLess(Tail(a), Tail(b))
  ELSE CharCode(Head(a)) < CharCode(Head(b))

\* Object.keys(parameters).sort().
RECURSIVE SortedKeys(_)
SortedKeys(keys) ==
  IF keys = {} THEN <<>>
  ELSE LET first == CHOOSE k \in keys :
                      \A j \in keys \ {k} : StringLess(k, j)
       IN  <<first>> \o SortedKeys(keys \ {first})

\* Array.prototype.join(separator).
RECURSIVE Join(_, _)
Join(strs, separator) ==
  IF strs = <<>> THEN <<>>
  ELSE IF Len(strs) = 1 THEN Head(strs)
  ELSE Head(strs) \o separator \o Join(Tail(strs), separator)

\* createSignatureBaseString.
CreateSignatureBaseString(method, url, parameters) ==
  LET keys == SortedKeys(DOMAIN parameters)
      sortedParams ==
        Join([n \in DOMAIN keys |->
                PercentEncode(keys[n]) \o <<"=">>
                  \o PercentEncode(parameters[keys[n]])],
             <<"&">>)
  IN  Join(<<ToUpperCase(method), PercentEncode(url),
             PercentEncode(sortedParams)>>, <<"&">>)

\* ------------------------------------------------------------------ dates
\* A date argument is <<>> (omitted), <<0>> (a string the pattern
\* ^\d{4}-\d{2}-\d{2}$ rejects) or <<y, m, d>> (a string the pattern accepts,
\* with its three numbers).
NoDate        == <<>>
MalformedDate == <<0>>

\* (IsLeap_EveryFourthYear: the Julian rule.)
IsLeap_EveryFourthYear(y) == y % 4 = 0

IsLeap(y) == (y % 4 = 0 /\ y % 100 # 0) \/ y % 400 = 0

LeapsThrough(y) == (y \div 4) - (y \div 100) + (y \div 400)

DaysBeforeYear(y) == 365 * (y - 1970) + LeapsThrough(y - 1) - LeapsThrough(1969)

DaysBeforeMonth(y, m) ==
  LET cum == <<0, 31, 59, 90, 120, 151, 181, 212, 243, 273, 304, 334>>
  IN  cum[m] + (IF m > 2 /\ IsLeap(y) THEN 1 ELSE 0)

\* new Date("YYYY-MM-DD") is a valid date when the month is 1..12 and the
\* day 1..31 (a day past the end of the month rolls over into the next one).
DateParses(date) ==
  /\ date[2] >= 1 /\ date[2] <= 12
  /\ date[3] >= 1 /\ date[3] <= 31

\* dateToFatSecretFormat: [ok, days].  ok = FALSE is the McpError thrown for
\* a string the pattern rejects or an invalid date; now is the day number of
\* new Date() for an omitted argument.
DateToFatSecretFormat(date, now) ==
  LET days == IF Len(date) = 0 THEN now
              ELSE IF Len(date) # 3 \/ ~DateParses(date) THEN 0
              ELSE DaysBeforeYear(date[1]) + DaysBeforeMonth(date[1], date[2])
                     + date[3] - 1
  IN  [ok   |-> Len(date) = 0 \/ (Len(date) = 3 /\ DateParses(date)),
       days |-> days,
       text |-> NumberToString(days)]

\* Day numbers Date.now() falls on.
NowDays == {20762}

\* -------------------------------------------------------------- arguments
\* request.params.arguments: one record for all tools; a key a call does not
\* pass is Undefined (strings), <<>> (numbers and dates).
NoArgs ==
  [clientId |-> Undefined, clientSecret |-> Undefined, verifier |-> Undefined,
   requestToken |-> Undefined, requestTokenSecret |-> Undefined,
   query |-> Undefined, type |-> Undefined, limit |-> <<>>,
   foodId |-> Undefined, recipeId |-> Undefined, servingId |-> Undefined,
   quantity |-> <<>>, mealType |-> Undefined, date |-> NoDate]

AuthArgs ==
  {[NoArgs EXCEPT !.clientId = c[1], !.clientSecret = c[2],
                  !.verifier = t[1], !.requestToken = t[2],
                  !.requestTokenSecret = t[3]] :
     c \in {<<"ck1", "cs1">>, <<Undefined, Undefined>>},
     t \in {<<Undefined, Undefined, Undefined>>, <<"v1", "rt1", "rts1">>,
            <<"v1", "rt1", Undefined>>}}

SearchArgs ==
  {[NoArgs EXCEPT !.query = "q", !.type = t] :
     t \in {Undefined, "all", "recipes"}}
  \cup {[NoArgs EXCEPT !.query = "q", !.type = "all", !.limit = <<l>>] :
     l \in {0, 1, 51}}
  \cup {[NoArgs EXCEPT !.query = q] : q \in {Undefined, " "}}

DetailsArgs ==
  {[NoArgs EXCEPT !.foodId = f[1], !.recipeId = f[2]] :
     f \in {<<"f1", Undefined>>, <<Undefined, "r1">>, <<Undefined, Undefined>>}}

DailyArgs ==
  {[NoArgs EXCEPT !.date = d] :
     d \in {NoDate, MalformedDate, <<2024, 1, 1>>, <<2024, 13, 40>>}}

DiaryArgs ==
  {[NoArgs EXCEPT !.foodId = "f1", !.servingId = "s1", !.quantity = <<1>>,
                  !.mealType = "lunch", !.date = d] :
     d \in {<<2024, 1, 1>>, MalformedDate}}
  \cup {[NoArgs EXCEPT !.foodId = "f1", !.servingId = "s1",
                       !.mealType = "lunch"],
        [NoArgs EXCEPT !.servingId = "s1", !.quantity = <<1>>,
                       !.mealType = "lunch"]}

Tools ==
  {"search_nutrition", "get_nutrition_details", "get_daily_nutrition",
   "add_food_to_diary", "get_user_profile", "authenticate_fatsecret",
   "check_authentication", "unknown_tool"}

ArgsOf(tool) ==
  CASE tool = "authenticate_fatsecret" -> AuthArgs
    [] tool = "search_nutrition"       -> SearchArgs
    [] tool = "get_nutrition_details"  -> DetailsArgs
    [] tool = "get_daily_nutrition"    -> DailyArgs
    [] tool = "add_food_to_diary"      -> DiaryArgs
    [] OTHER                           -> {NoArgs}

\* ------------------------------------------------------- server invocation
\* One CallTool handler: pc is where it waits ("idle", "load": readFile of
\* loadConfig, "save" / "write": open and write of saveConfig's writeFile,
\* "fetch": the provider's response, "done": returned or thrown); step is the
\* part of the handler that resumes after the wait.
IdleInvocation ==
  [pc |-> "idle", tool |-> "", args |-> NoArgs, step |-> "",
   saveData |-> FileMissing, req |-> NoRequest, resp |-> NoResponse,
   result |-> NoResult, nreq |-> 0]

\* Finish that leaves the handler where it waits.
Finish_Pending(v, result) == [v EXCEPT !.result = result]

Finish(v, result) == [v EXCEPT !.pc = "done", !.result = result]

Send(v, step, request) ==
  [v EXCEPT !.pc = "fetch", !.step = step, !.req = request,
            !.nreq = v.nreq + 1]

\* Save without the await: the exchange reports success while the write has
\* not been made.
Save_NotAwaited(v, step, cfg) ==
  IF step = "leg3"
    THEN [v EXCEPT !.pc = "done", !.step = step,
                   !.saveData = JsonStringify(cfg),
                   !.result = Ok(<<"Authentication successful", cfg.userId>>)]
  ELSE [v EXCEPT !.pc = "save", !.step = step, !.saveData = JsonStringify(cfg)]

\* await this.saveConfig(): the text written is JSON.stringify of the config
\* at the call.
Save(v, step, cfg) ==
  [v EXCEPT !.pc = "save", !.step = step, !.saveData = JsonStringify(cfg)]

\* The console process (FatSecretOAuthConsole.run): pc is where it waits
\* ("idle": not running, "load", "useExisting" / "enterCreds" / "askOAuth" /
\* "verifier": a prompt, "save" / "write", "fetch", "done": run returned or
\* process.exit(1)); requestToken and requestTokenSecret are the locals of
\* runOAuthFlow.
IdleConsole ==
  [pc |-> "idle", config |-> EmptyObject, step |-> "",
   requestToken |-> Undefined, requestTokenSecret |-> Undefined,
   saveData |-> FileMissing, req |-> NoRequest, resp |-> NoResponse,
   result |-> NoResult, nreq |-> 0]

\* ---------------------------------------------------------- function calls
\* One call of a function of the server on its own: the function, its
\* arguments, and the value returned ("none" before the call returns).
NoCall == [name |-> "", args |-> <<>>, returned |-> FALSE, value |-> <<>>]

\* ------------------------------------------------------------ HTTP server
\* runSSE: the last request the HTTP server has answered and what its
\* handler did with it. authorization is the header in the parts the handler
\* can tell apart (<<>>: no header; <<"Bearer ", t>>; <<t>>; ...), message the
\* body of the request; status and answer are the response, handled says
\* that the body was read and dispatched, connected that an
\* SSEServerTransport was made and connected to the MCP server.
NoHttpRequest ==
  [method |-> "", url |-> "", authorization |-> <<>>, message |-> "",
   status |-> 0, answer |-> "", handled |-> FALSE, connected |-> FALSE]

AuthorizationHeaders ==
  {<<>>, <<"Bearer ", "tok">>, <<"tok">>, <<"Bearer ", "bad">>,
   <<"Bearer ", "Bearer ", "tok">>, <<"Basic ", "tok">>}

\* Bodies: text that is not JSON, and JSON-RPC messages by their method
\* (tools/call with and without params).
HttpMessages ==
  {"not json", "initialize", "tools/list", "tools/call",
   "tools/call without params", "resources/list"}

HttpRequests ==
  {[NoHttpRequest EXCEPT !.method = m, !.url = u, !.authorization = a,
                         !.message = b] :
     m \in {"GET", "POST", "OPTIONS"},
     u \in {"/mcp", "/sse", "/health", "/", "/message"},
     a \in AuthorizationHeaders,
     b \in HttpMessages}

RECURSIVE Concat(_)
Concat(parts) ==
  IF parts = <<>> THEN "" ELSE Head(parts) \o Concat(Tail(parts))

\* req.headers.authorization?.replace('Bearer ', ''): undefined without the
\* header, else the header without its first "Bearer ".
ProvidedToken(authorization) ==
  IF authorization = <<>> THEN Undefined
  ELSE IF \E n \in DOMAIN authorization : authorization[n] = "Bearer "
    THEN LET n == CHOOSE k \in DOMAIN authorization :
                    /\ authorization[k] = "Bearer "
                    /\ \A j \in 1..(k - 1) : authorization[j] # "Bearer "
         IN  Concat(SubSeq(authorization, 1, n - 1)
                      \o SubSeq(authorization, n + 1, Len(authorization)))
  ELSE Concat(authorization)

\* The check both endpoints make: no check when MCP_AUTH_TOKEN is unset or
\* empty, else providedToken !== authToken answers 401.
Authorized_AnyHeader(authToken, authorization) ==
  ~Truthy(authToken) \/ authorization # <<>>

Authorized(authToken, authorization) ==
  ~Truthy(authToken) \/ ProvidedToken(authorization) = authToken

\* The answer of POST /mcp to a body that has been read.
McpAnswer(message) ==
  CASE message = "initialize" -> "result: serverInfo"
    [] message = "tools/list" -> "result: tools"
    [] message = "tools/call" -> "result: placeholder"
    [] message = "resources/list" -> "error -32601"
    [] OTHER -> "error -32603"

\* The request handler of createServer, top to bottom.
HandleRequest(authToken, req) ==
  IF req.method = "OPTIONS"
    THEN [req EXCEPT !.status = 200, !.answer = "preflight"]
  ELSE IF req.url = "/health"
    THEN [req EXCEPT !.status = 200, !.answer = "healthy"]
  ELSE IF req.url = "/mcp" /\ req.method = "POST"
    THEN IF ~Authorized(authToken, req.authorization)
           THEN [req EXCEPT !.status = 401, !.answer = "error -32001"]
         ELSE [req EXCEPT !.status = 200, !.handled = TRUE,
                          !.answer = McpAnswer(req.message)]
  ELSE IF req.url = "/sse"
    THEN IF ~Authorized(authToken, req.authorization)
           THEN [req EXCEPT !.status = 401, !.answer = "Unauthorized"]
         ELSE [req EXCEPT !.status = 200, !.connected = TRUE,
                          !.answer = "event stream"]
  ELSE IF req.url = "/"
    THEN [req EXCEPT !.status = 200, !.answer = "info"]
  ELSE [req EXCEPT !.status = 404, !.answer = "Not Found"]

\* The process run as HTTP server, with or without MCP_AUTH_TOKEN.
HttpInit ==
  /\ env \in {[CLIENT_ID |-> "", CLIENT_SECRET |-> "", MCP_AUTH_TOKEN |-> t] :
               t \in {"", "tok"}}
  /\ files = [p \in Paths |-> FileMissing]
  /\ config = DefaultConfig(env)
  /\ inv = [i \in Slots |-> IdleInvocation]
  /\ calls = 0
  /\ cli = IdleConsole
  /\ http = NoHttpRequest
  /\ fn = NoCall

\* A client sends a request and the handler answers it.
HttpRequest ==
  /\ \E req \in HttpRequests : http' = HandleRequest(env.MCP_AUTH_TOKEN, req)
  /\ UNCHANGED <<env, files, config, inv, calls, cli, fn>>

HttpNext == HttpRequest

HttpSpec == HttpInit /\ [][HttpNext]_vars

\* ---------------------------------------------- functions on their own
\* Keys of a parameter mapping: strings of at most MaxKeyLen characters, with
\* characters percentEncode keeps ("a", "-") and a character it escapes
\* ("/"); a mapping has at most MaxParams keys, all with the same value.
KeyChars == {"a", "-", "/"}

RECURSIVE StringsUpTo(_)
StringsUpTo(n) ==
  IF n = 0 THEN {<<>>}
  ELSE StringsUpTo(n - 1)
         \cup {<<c>> \o str : c \in KeyChars, str \in StringsUpTo(n - 1)}

ParameterKeys == StringsUpTo(MaxKeyLen) \ {<<>>}

ParameterValues == {<<"1">>, <<"a", " ", "/", "!">>}

RECURSIVE KeySetsUpTo(_)
KeySetsUpTo(n) ==
  IF n = 0 THEN {{}}
  ELSE KeySetsUpTo(n - 1)
         \cup {keys \cup {k} : keys \in KeySetsUpTo(n - 1), k \in ParameterKeys}

ParameterMappings ==
  {[k \in keys |-> value] :
     keys \in KeySetsUpTo(MaxParams) \ {{}}, value \in ParameterValues}

\* Date strings the pattern accepts: every day number 1..31 of every month
\* of the years DateYears.
DateYears == {1969, 1970, 2000, 2023, 2024, 2100}

DateStrings ==
  {<<y, m, d>> : y \in DateYears, m \in 1..12, d \in 1..31}
    \cup {<<2024, 13, 1>>, <<2024, 0, 10>>, <<2024, 1, 0>>}

FunctionCalls ==
  {[NoCall EXCEPT !.name = "createSignatureBaseString",
                  !.args = <<method, <<"h", ":", "/", "a">>, parameters>>] :
     method \in {<<"G", "E", "T">>, <<"p", "o", "s", "t">>},
     parameters \in ParameterMappings}
  \cup {[NoCall EXCEPT !.name = "dateToFatSecretFormat", !.args = <<date>>] :
          date \in DateStrings \cup {NoDate, MalformedDate}}

\* A call of one of the two functions with arguments of its type.
FunctionInit ==
  /\ env = [CLIENT_ID |-> "", CLIENT_SECRET |-> "", MCP_AUTH_TOKEN |-> ""]
  /\ files = [p \in Paths |-> FileMissing]
  /\ config = DefaultConfig(env)
  /\ inv = [i \in Slots |-> IdleInvocation]
  /\ calls = 0
  /\ cli = IdleConsole
  /\ http = NoHttpRequest
  /\ fn \in FunctionCalls

CreateSignatureBaseStringReturns ==
  /\ fn.name = "createSignatureBaseString" /\ ~fn.returned
  /\ fn' = [fn EXCEPT !.returned = TRUE,
                       !.value = CreateSignatureBaseString(fn.args[1], fn.args[2],
                                                           fn.args[3])]
  /\ UNCHANGED <<env, files, config, inv, calls, cli, http>>

DateToFatSecretFormatReturns ==
  /\ fn.name = "dateToFatSecretFormat" /\ ~fn.returned
  /\ \E now \in NowDays :
       fn' = [fn EXCEPT !.returned = TRUE,
                        !.value = DateToFatSecretFormat(fn.args[1], now)]
  /\ UNCHANGED <<env, files, config, inv, calls, cli, http>>

FunctionNext ==
  \/ CreateSignatureBaseStringReturns
  \/ DateToFatSecretFormatReturns

FunctionSpec == FunctionInit /\ [][FunctionNext]_vars

\* The server's file as an earlier server process leaves it after
\* authenticate_fatsecret has started a flow with clientId "ck1".
PreviousRunFile ==
  JsonStringify([EmptyObject EXCEPT !.clientId = "ck1", !.clientSecret = "cs1"])

\* A first run (no file) or a restart over PreviousRunFile, with or without
\* CLIENT_ID / CLIENT_SECRET in the environment.
Init ==
  /\ env \in {[CLIENT_ID |-> "", CLIENT_SECRET |-> "", MCP_AUTH_TOKEN |-> ""],
              [CLIENT_ID |-> "ck0", CLIENT_SECRET |-> "cs0",
               MCP_AUTH_TOKEN |-> ""]}
  /\ files \in [Paths -> {FileMissing}] \cup
       {[p \in Paths |-> IF p = ServerConfigPath THEN PreviousRunFile
                          ELSE FileMissing]}
  /\ config = DefaultConfig(env)
  /\ inv = [i \in Slots |-> IdleInvocation]
  /\ calls = 0
  /\ cli = IdleConsole
  /\ http = NoHttpRequest
  /\ fn = NoCall

\* The MCP client sends tools/call: the handler starts and awaits loadConfig.
\* A call takes the lowest slot that is not running, and the records of
\* handlers that have returned are dropped.
CallTool(i) ==
  /\ inv[i].pc \in {"idle", "done"}
  /\ \A j \in Slots : j < i => inv[j].pc \notin {"idle", "done"}
  /\ calls < MaxCalls
  /\ cli.pc \in {"idle", "done"}
  /\ cli' = IdleConsole
  /\ \E tool \in Tools : \E args \in ArgsOf(tool) :
       inv' = [j \in Slots |->
                 IF j = i
                   THEN [IdleInvocation EXCEPT !.pc = "load", !.tool = tool,
                                               !.args = args]
                 ELSE IF inv[j].pc = "done" THEN IdleInvocation
                 ELSE inv[j]]
  /\ calls' = calls + 1
  /\ UNCHANGED <<env, files, config, http, fn>>

\* The config a handler starts with: loadConfig of the CallTool handler.
Loaded == LoadConfig(config, files[ServerConfigPath])

HasCredentials(cfg) == Truthy(cfg.clientId) /\ Truthy(cfg.clientSecret)

\* HasAccessToken with the test of accessTokenSecret left out.
HasAccessToken_TokenOnly(cfg) == Truthy(cfg.accessToken)

HasAccessToken(cfg) == Truthy(cfg.accessToken) /\ Truthy(cfg.accessTokenSecret)

\* handleCheckAuthentication.
HandleCheckAuthentication(i) ==
  /\ inv[i].pc = "load" /\ inv[i].tool = "check_authentication"
  /\ config' = Loaded
  /\ LET status == IF HasCredentials(Loaded) /\ HasAccessToken(Loaded)
                     THEN "Fully authenticated"
                   ELSE IF HasCredentials(Loaded)
                     THEN "Credentials set, user authentication needed"
                   ELSE "Not configured"
     IN inv' = [inv EXCEPT ![i] =
                  Finish(@, Ok(<<status,
                                 IF HasAccessToken(Loaded) THEN "true" ELSE "false",
                                 IF Truthy(Loaded.userId) THEN Loaded.userId ELSE "N/A">>))]
  /\ UNCHANGED <<env, files, calls, cli, http, fn>>

\* default branch of the switch in the CallTool handler.
HandleUnknownTool(i) ==
  /\ inv[i].pc = "load" /\ inv[i].tool = "unknown_tool"
  /\ config' = Loaded
  /\ inv' = [inv EXCEPT ![i] = Finish(@, McpError("MethodNotFound", <<"Unknown tool">>))]
  /\ UNCHANGED <<env, files, calls, cli, http, fn>>

\* --------------------------------------------------------- search_nutrition
DefaultLimit == 20
MinLimit == 1
MaxLimit == 50

\* String.prototype.trim on the modelled queries.
Trim(q) == IF q = " " THEN "" ELSE q

\* args.limit ? parseInt(args.limit) : 20 (the number 0 is falsy).
ParsedLimit(args) ==
  IF Len(args.limit) = 1 /\ args.limit[1] # 0 THEN args.limit[1]
  ELSE DefaultLimit

SearchParams(method, args, maxResults) ==
  [method |-> method, search_expression |-> Trim(args.query),
   page_number |-> "0", max_results |-> maxResults, format |-> "json"]

\* handleSearchNutrition up to its first await.
HandleSearchNutrition(i) ==
  /\ inv[i].pc = "load" /\ inv[i].tool = "search_nutrition"
  /\ config' = Loaded
  /\ LET args  == inv[i].args
         limit == ParsedLimit(args)
     IN inv' = [inv EXCEPT ![i] =
          IF ~HasCredentials(Loaded)
            THEN Finish(@, McpError("InvalidRequest", <<"Please authenticate">>))
          ELSE IF ~Truthy(args.query) \/ Trim(args.query) = ""
            THEN Finish(@, McpError("InvalidRequest", <<"Search query is required">>))
          ELSE IF limit < MinLimit \/ limit > MaxLimit
            THEN Finish(@, McpError("InvalidRequest", <<"Limit must be a number between 1 and 50">>))
          ELSE IF args.type = "recipes"
            THEN Send(@, "recipes",
                      ApiRequest(i, Loaded, "GET",
                                    SearchParams("recipes.search", args, limit), FALSE))
          ELSE Send(@, "foods",
                    ApiRequest(i, Loaded, "GET",
                                  SearchParams("foods.search", args, limit), FALSE))]
  /\ UNCHANGED <<env, files, calls, cli, http, fn>>

\* handleSearchNutrition after a response: the result, or for type "all" the
\* recipes search that follows the foods search.
SearchResponse(i) ==
  /\ inv[i].pc = "fetch" /\ inv[i].tool = "search_nutrition"
  /\ \E r \in ResponsesFor(inv[i].req.endpoint) :
       LET v     == [inv[i] EXCEPT !.resp = r]
           args  == inv[i].args
           limit == ParsedLimit(args)
       IN inv' = [inv EXCEPT ![i] =
            IF Failed(r)
              THEN Finish(v, McpError("InternalError",
                               <<"Failed to search nutrition">>
                                 \o ThrownError("FatSecret API error", r)))
            ELSE IF v.step = "recipes" THEN Finish(v, Ok(<<"recipes">>))
            ELSE IF v.step = "all_recipes" THEN Finish(v, Ok(<<"all">>))
            ELSE IF args.type = "all"
              THEN Send(v, "all_recipes",
                        ApiRequest(i, config, "GET",
                                      SearchParams("recipes.search", args, limit \div 2),
                                      FALSE))
            ELSE Finish(v, Ok(<<"foods">>))]
  /\ UNCHANGED <<env, files, config, calls, cli, http, fn>>

\* ---------------------------------------------------- get_nutrition_details
HandleGetNutritionDetails(i) ==
  /\ inv[i].pc = "load" /\ inv[i].tool = "get_nutrition_details"
  /\ config' = Loaded
  /\ LET args == inv[i].args
     IN inv' = [inv EXCEPT ![i] =
          IF ~HasCredentials(Loaded)
            THEN Finish(@, McpError("InvalidRequest", <<"Please authenticate">>))
          ELSE IF Truthy(args.foodId)
            THEN Send(@, "food",
                      ApiRequest(i, Loaded, "GET",
                                    [method |-> "food.get", food_id |-> args.foodId,
                                     format |-> "json"], FALSE))
          ELSE IF Truthy(args.recipeId)
            THEN Send(@, "recipe",
                      ApiRequest(i, Loaded, "GET",
                                    [method |-> "recipe.get", recipe_id |-> args.recipeId,
                                     format |-> "json"], FALSE))
          \* the McpError(InvalidRequest) thrown in the try block is caught
          \* and rethrown by its catch
          ELSE Finish(@, McpError("InternalError", <<"Failed to get nutrition details">>))]
  /\ UNCHANGED <<env, files, calls, cli, http, fn>>

\* ------------------------------------------------------ get_daily_nutrition
HandleGetDailyNutrition(i) ==
  /\ inv[i].pc = "load" /\ inv[i].tool = "get_daily_nutrition"
  /\ config' = Loaded
  /\ \E now \in NowDays :
       LET date == DateToFatSecretFormat(inv[i].args.date, now)
       IN inv' = [inv EXCEPT ![i] =
            IF ~HasAccessToken(Loaded)
              THEN Finish(@, McpError("InvalidRequest", <<"User authentication required">>))
            ELSE IF ~date.ok
              THEN Finish(@, McpError("InternalError", <<"Failed to get daily nutrition">>))
            ELSE Send(@, "entries",
                      ApiRequest(i, Loaded, "GET",
                                    [method |-> "food_entries.get", date |-> date.days,
                                     format |-> "json"], TRUE))]
  /\ UNCHANGED <<env, files, calls, cli, http, fn>>

\* -------------------------------------------------------- add_food_to_diary
HandleAddFoodToDiary(i) ==
  /\ inv[i].pc = "load" /\ inv[i].tool = "add_food_to_diary"
  /\ config' = Loaded
  /\ \E now \in NowDays :
       LET args == inv[i].args
           date == DateToFatSecretFormat(args.date, now)
       IN inv' = [inv EXCEPT ![i] =
            IF ~HasAccessToken(Loaded)
              THEN Finish(@, McpError("InvalidRequest", <<"User authentication required">>))
            ELSE IF ~date.ok
              THEN Finish(@, McpError("InternalError", <<"Failed to add food to diary">>))
            \* args.quantity.toString() of an omitted quantity: TypeError
            ELSE IF Len(args.quantity) = 0
              THEN Finish(@, McpError("InternalError", <<"Failed to add food to diary">>))
            ELSE Send(@, "create",
                      ApiRequest(i, Loaded, "POST",
                                    [method |-> "food_entry.create",
                                     food_id |-> args.foodId,
                                     serving_id |-> args.servingId,
                                     quantity |-> args.quantity[1],
                                     meal |-> args.mealType,
                                     date |-> date.days,
                                     format |-> "json"], TRUE))]
  /\ UNCHANGED <<env, files, calls, cli, http, fn>>

\* --------------------------------------------------------- get_user_profile
HandleGetUserProfile(i) ==
  /\ inv[i].pc = "load" /\ inv[i].tool = "get_user_profile"
  /\ config' = Loaded
  /\ inv' = [inv EXCEPT ![i] =
       IF ~HasAccessToken(Loaded)
         THEN Finish(@, McpError("InvalidRequest", <<"User authentication required">>))
       ELSE Send(@, "profile",
                 ApiRequest(i, Loaded, "GET",
                               [method |-> "profile.get", format |-> "json"], TRUE))]
  /\ UNCHANGED <<env, files, calls, cli, http, fn>>

\* The four single-request handlers after the response of makeApiRequest.
ApiResponse(i) ==
  /\ inv[i].pc = "fetch"
  /\ inv[i].tool \in {"get_nutrition_details", "get_daily_nutrition",
                      "add_food_to_diary", "get_user_profile"}
  /\ \E r \in ResponsesFor(inv[i].req.endpoint) :
       LET v == [inv[i] EXCEPT !.resp = r]
       IN inv' = [inv EXCEPT ![i] =
            IF Failed(r)
              THEN Finish(v, McpError("InternalError",
                               <<"Failed", v.step>>
                                 \o ThrownError("FatSecret API error", r)))
            ELSE Finish(v, Ok(<<v.step>>))]
  /\ UNCHANGED <<env, files, config, calls, cli, http, fn>>

\* ---------------------------------------------------- authenticate_fatsecret
\* WithClient that also keeps the request token of the call in the config.
WithClient_KeepsRequestToken(cfg, args) ==
  [cfg EXCEPT !.clientId = args.clientId, !.clientSecret = args.clientSecret,
              !.accessToken = args.requestToken,
              !.accessTokenSecret = args.requestTokenSecret]

WithClient(cfg, args) ==
  [cfg EXCEPT !.clientId = args.clientId, !.clientSecret = args.clientSecret]

\* The branch test of handleAuthenticateFatSecret: a new flow unless
\* verifier, requestToken and requestTokenSecret are all truthy.
\* (StartsFlow_VerifierOnly: only the verifier is tested.)
StartsFlow_VerifierOnly(args) == ~Truthy(args.verifier)

StartsFlow(args) ==
  ~Truthy(args.verifier) \/ ~Truthy(args.requestToken)
    \/ ~Truthy(args.requestTokenSecret)

RequestTokenRequest(who, cfg) ==
  OAuthRequest(who, cfg, "POST", "request_token", [oauth_callback |-> "oob"],
               Undefined, Undefined)

\* AccessTokenRequest signed without the request token and its secret.
AccessTokenRequest_Unsigned(who, cfg, verifier, token, tokenSecret) ==
  OAuthRequest(who, cfg, "GET", "access_token", [oauth_verifier |-> verifier],
               Undefined, Undefined)

AccessTokenRequest(who, cfg, verifier, token, tokenSecret) ==
  OAuthRequest(who, cfg, "GET", "access_token", [oauth_verifier |-> verifier],
               token, tokenSecret)

\* WithAccessToken with the token stored in place of its secret.
WithAccessToken_SecretFromToken(cfg, r) ==
  [cfg EXCEPT !.accessToken = r.oauth_token,
              !.accessTokenSecret = r.oauth_token,
              !.userId = r.user_id]

\* The three assignments after the access-token response.
WithAccessToken(cfg, r) ==
  [cfg EXCEPT !.accessToken = r.oauth_token,
              !.accessTokenSecret = r.oauth_token_secret,
              !.userId = r.user_id]

AuthFailed == McpError("InternalError", <<"Authentication failed">>)

\* handleAuthenticateFatSecret up to its first await: saveConfig when a flow
\* starts, the access-token request when it completes.
HandleAuthenticateFatSecret(i) ==
  /\ inv[i].pc = "load" /\ inv[i].tool = "authenticate_fatsecret"
  /\ LET args == inv[i].args
         cfg  == WithClient(Loaded, args)
     IN /\ config' = cfg
        /\ inv' = [inv EXCEPT ![i] =
             IF StartsFlow(args) THEN Save(@, "leg1", cfg)
             ELSE Send(@, "leg3",
                       AccessTokenRequest(i, cfg, args.verifier, args.requestToken,
                                             args.requestTokenSecret))]
  /\ UNCHANGED <<env, files, calls, cli, http, fn>>

\* fs.writeFile, first half: the file is opened for writing and truncated,
\* or the open fails and the handler's catch turns the error into McpError.
SaveConfigOpen(i) ==
  /\ inv[i].pc = "save"
  /\ \/ /\ files' = [files EXCEPT ![ServerConfigPath] = FilePartial]
        /\ inv' = [inv EXCEPT ![i].pc = "write"]
     \/ /\ inv' = [inv EXCEPT ![i] = Finish(@, AuthFailed)]
        /\ UNCHANGED files
  /\ UNCHANGED <<env, config, calls, cli, http, fn>>

\* fs.writeFile, second half: the text is written and the handler resumes
\* (leg 1 sends the request-token request, leg 3 returns), or the write fails.
SaveConfigWrite(i) ==
  /\ inv[i].pc = "write"
  /\ \/ /\ files' = [files EXCEPT ![ServerConfigPath] =
                                   WriteFile(@, inv[i].saveData)]
        /\ inv' = [inv EXCEPT ![i] =
             IF @.step = "leg1"
               THEN Send(@, "leg1", RequestTokenRequest(i, config))
             ELSE Finish(@, Ok(<<"Authentication successful", config.userId>>))]
     \/ /\ inv' = [inv EXCEPT ![i] = Finish(@, AuthFailed)]
        /\ UNCHANGED files
  /\ UNCHANGED <<env, config, calls, cli, http, fn>>

\* handleAuthenticateFatSecret after the response of makeOAuthRequest.
AuthResponse(i) ==
  /\ inv[i].pc = "fetch" /\ inv[i].tool = "authenticate_fatsecret"
  /\ \E r \in ResponsesFor(inv[i].req.endpoint) :
       LET v == [inv[i] EXCEPT !.resp = r]
       IN IF Failed(r)
            THEN /\ inv' = [inv EXCEPT ![i] =
                      Finish(v, McpError("InternalError",
                                  <<"Authentication failed">>
                                    \o ThrownError("OAuth error", r)))]
                 /\ UNCHANGED config
          ELSE IF v.step = "leg1"
            THEN /\ inv' = [inv EXCEPT ![i] =
                      Finish(v, Ok(<<"OAuth flow started", r.oauth_token,
                                     r.oauth_token_secret>>))]
                 /\ UNCHANGED config
          ELSE /\ config' = WithAccessToken(config, r)
               /\ inv' = [inv EXCEPT ![i] = Save(v, "leg3", WithAccessToken(config, r))]
  /\ UNCHANGED <<env, files, calls, cli, http, fn>>

\* ------------------------------------------------------------------ console
\* The console is a process of its own with a file of its own, so its steps
\* commute with the server's: the model runs it while no handler is waiting,
\* and drops the records of finished handlers when it starts.
ServerQuiet == \A i \in Slots : inv[i].pc \in {"idle", "done"}

ExitError(text) == [kind |-> "error", code |-> "exit1", text |-> text]

\* node cli.js: the constructor, then run() up to the readFile of loadConfig.
CliRun ==
  /\ cli.pc \in {"idle", "done"}
  /\ ServerQuiet
  /\ calls < MaxCalls
  /\ calls' = calls + 1
  /\ cli' = [IdleConsole EXCEPT !.pc = "load", !.config = DefaultConfig(env)]
  /\ inv' = [i \in Slots |-> IdleInvocation]
  /\ UNCHANGED <<env, files, config, http, fn>>

\* loadConfig, then setupCredentials up to its first prompt.
CliSetupCredentials ==
  /\ cli.pc = "load"
  /\ LET cfg == LoadConfig(cli.config, files[CliConfigPath])
     IN cli' = [cli EXCEPT !.config = cfg,
                           !.pc = IF HasCredentials(cfg) THEN "useExisting"
                                  ELSE "enterCreds"]
  /\ UNCHANGED <<env, files, config, inv, calls, http, fn>>

\* "Use existing credentials? (y/n)".
CliUseExisting ==
  /\ cli.pc = "useExisting"
  /\ \E answer \in {"y", "n"} :
       cli' = [cli EXCEPT !.pc = IF answer = "y" THEN "askOAuth" ELSE "enterCreds"]
  /\ UNCHANGED <<env, files, config, inv, calls, http, fn>>

\* The two prompts "Client ID:" and "Client Secret:", the check and saveConfig.
CliEnterCredentials ==
  /\ cli.pc = "enterCreds"
  /\ \E id \in {"", "ck2"}, secret \in {"", "cs2"} :
       LET cfg == [cli.config EXCEPT !.clientId = id, !.clientSecret = secret]
       IN cli' = IF ~Truthy(id) \/ ~Truthy(secret)
                   THEN [cli EXCEPT !.config = cfg, !.pc = "done",
                           !.result = ExitError(<<"Client ID and Client Secret are required">>)]
                 ELSE [cli EXCEPT !.config = cfg, !.pc = "save", !.step = "creds",
                                  !.saveData = JsonStringify(cfg)]
  /\ UNCHANGED <<env, files, config, inv, calls, http, fn>>

\* fs.writeFile of the console's saveConfig, first half.
CliSaveOpen ==
  /\ cli.pc = "save"
  /\ \/ /\ files' = [files EXCEPT ![CliConfigPath] = FilePartial]
        /\ cli' = [cli EXCEPT !.pc = "write"]
     \/ /\ cli' = [cli EXCEPT !.pc = "done", !.result = ExitError(<<"writeFile">>)]
        /\ UNCHANGED files
  /\ UNCHANGED <<env, config, inv, calls, http, fn>>

\* fs.writeFile, second half; then the prompt "authenticate a user now?"
\* (after setupCredentials) or the end of runOAuthFlow and of run.
CliSaveWrite ==
  /\ cli.pc = "write"
  /\ \/ /\ files' = [files EXCEPT ![CliConfigPath] =
                                   WriteFile(@, cli.saveData)]
        /\ cli' = IF cli.step = "creds" THEN [cli EXCEPT !.pc = "askOAuth"]
                  ELSE [cli EXCEPT !.pc = "done",
                          !.result = Ok(<<"OAuth flow completed successfully",
                                          cli.config.userId>>)]
     \/ /\ cli' = [cli EXCEPT !.pc = "done", !.result = ExitError(<<"writeFile">>)]
        /\ UNCHANGED files
  /\ UNCHANGED <<env, config, inv, calls, http, fn>>

\* "Do you want to authenticate a user now? (y/n)": runOAuthFlow sends the
\* request-token request, or run ends with checkStatus.
CliAskOAuth ==
  /\ cli.pc = "askOAuth"
  /\ \E answer \in {"y", "n"} :
       cli' = IF answer = "y"
                THEN [cli EXCEPT !.pc = "fetch", !.step = "leg1",
                                 !.req = RequestTokenRequest(Console, cli.config),
                                 !.nreq = cli.nreq + 1]
              ELSE [cli EXCEPT !.pc = "done", !.result = Ok(<<"Setup complete">>)]
  /\ UNCHANGED <<env, files, config, inv, calls, http, fn>>

\* runOAuthFlow step 1 after the response: both fields are required; then
\* the authorization URL and the verifier prompt.
CliRequestTokenResponse ==
  /\ cli.pc = "fetch" /\ cli.step = "leg1"
  /\ \E r \in ResponsesFor("request_token") :
       LET c == [cli EXCEPT !.resp = r]
       IN cli' =
            IF Failed(r)
              THEN [c EXCEPT !.pc = "done",
                             !.result = ExitError(ThrownError("HTTP", r))]
            ELSE IF ~Truthy(r.oauth_token) \/ ~Truthy(r.oauth_token_secret)
              THEN [c EXCEPT !.pc = "done",
                             !.requestToken = r.oauth_token,
                             !.requestTokenSecret = r.oauth_token_secret,
                             !.result = ExitError(<<"Invalid response: missing token or token secret">>)]
            ELSE [c EXCEPT !.pc = "verifier",
                           !.requestToken = r.oauth_token,
                           !.requestTokenSecret = r.oauth_token_secret]
  /\ UNCHANGED <<env, files, config, inv, calls, http, fn>>

\* "Enter the verifier code:" and the access-token request of step 3.
CliVerifier ==
  /\ cli.pc = "verifier"
  /\ \E verifier \in {"", "v1"} :
       cli' = IF ~Truthy(verifier)
                THEN [cli EXCEPT !.pc = "done",
                                 !.result = ExitError(<<"Verifier code is required">>)]
              ELSE [cli EXCEPT !.pc = "fetch", !.step = "leg3",
                               !.req = AccessTokenRequest(Console, cli.config, verifier,
                                                   cli.requestToken, cli.requestTokenSecret),
                               !.nreq = cli.nreq + 1]
  /\ UNCHANGED <<env, files, config, inv, calls, http, fn>>

\* runOAuthFlow step 3 after the response: both fields are required; then
\* the three assignments and saveConfig.
CliAccessTokenResponse ==
  /\ cli.pc = "fetch" /\ cli.step = "leg3"
  /\ \E r \in ResponsesFor("access_token") :
       LET c == [cli EXCEPT !.resp = r]
       IN cli' =
            IF Failed(r)
              THEN [c EXCEPT !.pc = "done",
                             !.result = ExitError(ThrownError("HTTP", r))]
            ELSE IF ~Truthy(r.oauth_token) \/ ~Truthy(r.oauth_token_secret)
              THEN [c EXCEPT !.pc = "done",
                             !.result = ExitError(<<"Invalid response from access token endpoint">>)]
            ELSE [c EXCEPT !.pc = "save", !.step = "leg3",
                           !.config = WithAccessToken(cli.config, r),
                           !.saveData = JsonStringify(WithAccessToken(cli.config, r))]
  /\ UNCHANGED <<env, files, config, inv, calls, http, fn>>

Next ==
  \/ \E i \in Slots : CallTool(i)
  \/ \E i \in Slots : HandleCheckAuthentication(i)
  \/ \E i \in Slots : HandleUnknownTool(i)
  \/ \E i \in Slots : HandleSearchNutrition(i)
  \/ \E i \in Slots : SearchResponse(i)
  \/ \E i \in Slots : HandleGetNutritionDetails(i)
  \/ \E i \in Slots : HandleGetDailyNutrition(i)
  \/ \E i \in Slots : HandleAddFoodToDiary(i)
  \/ \E i \in Slots : HandleGetUserProfile(i)
  \/ \E i \in Slots : ApiResponse(i)
  \/ \E i \in Slots : HandleAuthenticateFatSecret(i)
  \/ \E i \in Slots : SaveConfigOpen(i)
  \/ \E i \in Slots : SaveConfigWrite(i)
  \/ \E i \in Slots : AuthResponse(i)
  \/ CliRun
  \/ CliSetupCredentials
  \/ CliUseExisting
  \/ CliEnterCredentials
  \/ CliSaveOpen
  \/ CliSaveWrite
  \/ CliAskOAuth
  \/ CliRequestTokenResponse
  \/ CliVerifier
  \/ CliAccessTokenResponse

Spec == Init /\ [][Next]_vars

\* A step of the handler in slot i: an await of the handler resolves - the
\* readFile of loadConfig, the writeFile of saveConfig or the fetch of a
\* provider request.
InvocationStep(i) ==
  \/ HandleCheckAuthentication(i)
  \/ HandleUnknownTool(i)
  \/ HandleSearchNutrition(i)
  \/ SearchResponse(i)
  \/ HandleGetNutritionDetails(i)
  \/ HandleGetDailyNutrition(i)
  \/ HandleAddFoodToDiary(i)
  \/ HandleGetUserProfile(i)
  \/ ApiResponse(i)
  \/ HandleAuthenticateFatSecret(i)
  \/ SaveConfigOpen(i)
  \/ SaveConfigWrite(i)
  \/ AuthResponse(i)

\* The server when every file operation completes and every provider
\* request is answered or fails: no await of a handler stays pending.
FairSpec == Spec /\ \A i \in Slots : WF_vars(InvocationStep(i))

\* ================================================================= claims
ServerFile == files[ServerConfigPath]
CliFile    == files[CliConfigPath]

TokenKeys == {"accessToken", "accessTokenSecret", "userId"}

TokensOf(cfg) == <<cfg.accessToken, cfg.accessTokenSecret, cfg.userId>>
TokensIn(r)   == <<r.oauth_token, r.oauth_token_secret, r.user_id>>

\* A 2xx response without oauth_token or without oauth_token_secret.
Incomplete(r) ==
  r.status = "ok" /\ (~Truthy(r.oauth_token) \/ ~Truthy(r.oauth_token_secret))

\* Slot i resumes from the wait at pc in this step.
Resumes(i, pc) == inv[i].pc = pc /\ inv'[i].pc # pc

\* C1: when the 2xx response of the access-token exchange lacks oauth_token
\* or oauth_token_secret, the operation ends in an error in the step that
\* receives the response, the token fields of the in-memory credentials and
\* the files are as before, and no later write of that exchange reaches the
\* file - in the server and in the console.
C1_NoPartialCredentials ==
  [][/\ \A i \in Slots :
          (Resumes(i, "fetch") /\ inv[i].step = "leg3" /\ Incomplete(inv'[i].resp))
            => /\ inv'[i].pc = "done" /\ inv'[i].result.kind = "error"
               /\ TokensOf(config') = TokensOf(config)
               /\ files' = files
     /\ \A i \in Slots :
          (inv[i].pc = "write" /\ inv[i].step = "leg3" /\ files' # files)
            => ~Incomplete(inv[i].resp)
     /\ (cli.pc = "fetch" /\ cli.step = "leg3" /\ cli'.pc # "fetch"
           /\ Incomplete(cli'.resp))
            => /\ cli'.pc = "done" /\ cli'.result.kind = "error"
               /\ TokensOf(cli'.config) = TokensOf(cli.config)
               /\ files' = files
    ]_vars

\* C2: when the 2xx response of the request-token leg lacks oauth_token or
\* oauth_token_secret, the leg ends in an error: the caller gets no
\* authorization URL and the console does not reach the verifier prompt.
C2_RequestTokenRequired ==
  /\ \A i \in Slots :
       (inv[i].step = "leg1" /\ Incomplete(inv[i].resp))
         => inv[i].pc = "done" /\ inv[i].result.kind = "error"
  /\ (cli.step = "leg1" /\ Incomplete(cli.resp))
       => cli.pc = "done" /\ cli.result.kind = "error"

\* C3: after the access-token response the three token fields of the
\* credentials are the response's oauth_token, oauth_token_secret and
\* user_id, and success is reported only in the step that completes the
\* write of a text with exactly these values to the credential file (a
\* failed save reports no success) - in the server and in the console.
C3_PersistBeforeAcknowledge ==
  [][/\ \A i \in Slots :
          /\ (Resumes(i, "fetch") /\ inv[i].step = "leg3" /\ inv'[i].pc = "save")
               => /\ TokensOf(config') = TokensIn(inv'[i].resp)
                  /\ TokensOf(inv'[i].saveData.data) = TokensIn(inv'[i].resp)
          /\ (inv[i].pc # "done" /\ inv'[i].pc = "done" /\ inv'[i].step = "leg3"
                /\ inv'[i].result.kind = "ok")
               => /\ inv[i].pc = "write"
                  /\ ServerFile' = WriteFile(ServerFile, inv[i].saveData)
                  /\ inv[i].saveData.kind = "json"
                  /\ TokensOf(inv[i].saveData.data) = TokensIn(inv[i].resp)
     /\ (cli.pc = "fetch" /\ cli.step = "leg3" /\ cli'.pc = "save")
          => /\ TokensOf(cli'.config) = TokensIn(cli'.resp)
             /\ TokensOf(cli'.saveData.data) = TokensIn(cli'.resp)
     /\ (cli.pc # "done" /\ cli'.pc = "done" /\ cli'.step = "leg3"
           /\ cli'.result.kind = "ok")
          => /\ cli.pc = "write"
             /\ CliFile' = cli.saveData
             /\ CliFile'.kind = "json"
             /\ TokensOf(CliFile'.data) = TokensIn(cli.resp)
    ]_vars

\* C3 witness: the console has completed a flow and saved, and a server
\* exchange has reported success with the response's token, secret and user
\* id in the file.
C3_Witness ==
  /\ CliFile.kind = "json" /\ CliFile.data.accessToken = "at1"
  /\ ServerFile.kind = "json"
  /\ \E i \in Slots :
       /\ inv[i].pc = "done" /\ inv[i].step = "leg3"
       /\ inv[i].result.kind = "ok"
       /\ TokensOf(ServerFile.data) = <<"at1", "ats1", "u1">>

\* C4: every provider request that has been sent was signed with a non-empty
\* consumer key and a non-empty consumer secret.
C4_ConsumerCredentialsRequired ==
  /\ \A i \in Slots :
       inv[i].nreq > 0
         => Truthy(inv[i].req.consumerKey) /\ Truthy(inv[i].req.clientSecret)
  /\ cli.nreq > 0
       => Truthy(cli.req.consumerKey) /\ Truthy(cli.req.clientSecret)

UserScopedTools == {"get_daily_nutrition", "add_food_to_diary", "get_user_profile"}

\* C5: a user-scoped tool whose loaded credentials lack accessToken or
\* accessTokenSecret sends nothing, fails with InvalidRequest and leaves the
\* loaded credentials and the files as they are; a request it does send
\* carries the loaded access token and is signed with its secret.
C5_UserScopedGate ==
  [][\A i \in Slots :
       (Resumes(i, "load") /\ inv[i].tool \in UserScopedTools)
         => LET cfg == LoadConfig(config, ServerFile)
            IN IF Truthy(cfg.accessToken) /\ Truthy(cfg.accessTokenSecret)
                 THEN inv'[i].nreq > 0
                        => /\ inv'[i].req.oauthToken = cfg.accessToken
                           /\ inv'[i].req.tokenSecret = cfg.accessTokenSecret
               ELSE /\ inv'[i].nreq = 0
                    /\ inv'[i].pc = "done"
                    /\ inv'[i].result.kind = "error"
                    /\ inv'[i].result.code = "InvalidRequest"
                    /\ config' = cfg
                    /\ files' = files
    ]_vars

\* C5 witness: a user-scoped tool rejected with an access token but no
\* access-token secret in the credentials.
C5_Witness ==
  \E i \in Slots :
    /\ inv[i].tool \in UserScopedTools /\ inv[i].pc = "done"
    /\ inv[i].nreq = 0 /\ inv[i].result.code = "InvalidRequest"
    /\ Truthy(config.accessToken) /\ ~Truthy(config.accessTokenSecret)

\* C6: a readFile of loadConfig that completes while a writeFile of
\* saveConfig is in progress does not read the truncated file.
C6_AtomicSave ==
  [][\A i \in Slots :
       (Resumes(i, "load") /\ \E j \in Slots : inv[j].pc = "write")
         => ServerFile.kind # "partial"
    ]_vars

\* C7: when a handler starts over a readable file, the in-memory accessToken,
\* accessTokenSecret and userId are the file's, absent where the file has
\* none.
C7_FreshTokens ==
  [][\A i \in Slots :
       (Resumes(i, "load") /\ ServerFile.kind = "json")
         => \A k \in TokenKeys : config'[k] = ServerFile.data[k]
    ]_vars

\* C8: at every load over a missing or unparsable file the invocation
\* proceeds and the credentials in use are the defaults of the process
\* environment - in the server and in the console.
C8_DefaultsOnLoadFailure ==
  [][/\ \A i \in Slots :
          (Resumes(i, "load") /\ ServerFile.kind # "json"
             /\ inv[i].tool # "authenticate_fatsecret")
            => config' = DefaultConfig(env)
     /\ (cli.pc = "load" /\ cli'.pc # "load" /\ CliFile.kind # "json")
          => cli'.config = DefaultConfig(env)
    ]_vars

\* C9: once the console has saved an access token and its secret, a server
\* invocation that follows reports the user as authenticated and a
\* user-scoped tool is not rejected for a missing access token.
C9_ConsoleToServer ==
  (CliFile.kind = "json" /\ Truthy(CliFile.data.accessToken)
     /\ Truthy(CliFile.data.accessTokenSecret))
    => \A i \in Slots :
         inv[i].pc = "done"
           => /\ inv[i].tool = "check_authentication"
                   => inv[i].result.text[2] = "true"
              /\ inv[i].tool \in UserScopedTools
                   => inv[i].result.code # "InvalidRequest"

\* The values the request-token endpoint hands out.
RequestTokenValues == {"rt1", "rts1"}

\* C10: a credential file holds the five keys of the credentials and none
\* of their values is a request token or a request-token secret.
C10_RequestTokenNotPersisted ==
  \A p \in Paths :
    /\ DOMAIN files[p].data = ConfigKeys
    /\ \A k \in ConfigKeys : files[p].data[k] \notin RequestTokenValues

\* C10 witness: the console has saved the outcome of a flow, and the server
\* has saved the outcome of an exchange made with the request token rt1.
C10_Witness ==
  /\ CliFile.kind = "json" /\ CliFile.data.accessToken = "at1"
  /\ \E i \in Slots :
       /\ inv[i].pc = "done" /\ inv[i].step = "leg3"
       /\ inv[i].args.requestToken = "rt1"
       /\ inv[i].result.kind = "ok"
       /\ ServerFile.kind = "json" /\ ServerFile.data.accessToken = "at1"
       /\ ServerFile.data.userId = Undefined

\* The writeFile of saveConfig of an invocation has resolved.
SaveCompleted(v) ==
  /\ v.saveData.kind = "json"
  /\ \/ v.step = "leg1" /\ v.nreq > 0
     \/ v.step = "leg3" /\ v.pc = "done" /\ v.result.kind = "ok"

\* C11: when two overlapping invocations both save, then in the step in
\* which the second of the two saves completes without error the credential
\* file becomes the complete object that this last save wrote.
C11_LastWriterWins ==
  [][\A i \in Slots : \A j \in Slots \ {i} :
       (/\ inv[i].pc = "write" /\ SaveCompleted(inv'[i])
        /\ SaveCompleted(inv[j]))
         => ServerFile' = inv[i].saveData
    ]_vars

\* A date argument that is not a YYYY-MM-DD calendar date.
MalformedDateArg(date) ==
  Len(date) # 0 /\ (Len(date) # 3 \/ date[2] \notin 1..12 \/ date[3] \notin 1..31)

\* A required argument of the tool is missing from the call.
RequiredArgMissing(tool, args) ==
  CASE tool = "get_nutrition_details" ->
         args.foodId = Undefined /\ args.recipeId = Undefined
    [] tool = "add_food_to_diary" ->
         \/ args.foodId = Undefined \/ args.servingId = Undefined
         \/ args.quantity = <<>> \/ args.mealType = Undefined
    [] OTHER -> FALSE

\* C12: an invocation of get_nutrition_details, get_daily_nutrition or
\* add_food_to_diary with a malformed date or a missing required argument
\* has sent no provider request, and when it has returned it has returned
\* an error.
C12_RejectedBeforeNetwork ==
  \A i \in Slots :
    (/\ inv[i].tool \in {"get_nutrition_details", "get_daily_nutrition",
                         "add_food_to_diary"}
     /\ \/ MalformedDateArg(inv[i].args.date)
        \/ RequiredArgMissing(inv[i].tool, inv[i].args))
      => /\ inv[i].nreq = 0
         /\ inv[i].pc = "done" => inv[i].result.kind = "error"

\* C13: get_daily_nutrition or add_food_to_diary called with a malformed
\* date returns an error of code InvalidRequest.
C13_MalformedDateInvalidRequest ==
  \A i \in Slots :
    (/\ inv[i].tool \in {"get_daily_nutrition", "add_food_to_diary"}
     /\ MalformedDateArg(inv[i].args.date)
     /\ inv[i].pc = "done")
      => /\ inv[i].result.kind = "error"
         /\ inv[i].result.code = "InvalidRequest"

\* The requests sent by the running invocations and the console.
SentRequests ==
  {inv[i].req : i \in {j \in Slots : inv[j].nreq > 0}}
    \cup (IF cli.nreq > 0 THEN {cli.req} ELSE {})

\* C14: for every request sent, the transmitted pairs other than
\* oauth_signature have exactly the keys of the signed pairs, each with the
\* string value that was signed.
C14_SignatureCoversTransmitted ==
  \A req \in SentRequests :
    /\ DOMAIN TransmittedPairs(req) \ {"oauth_signature"} = DOMAIN SignedPairs(req)
    /\ \A k \in DOMAIN SignedPairs(req) :
         TransmittedPairs(req)[k] = SignedPairs(req)[k]

Contains(text, part) == \E n \in DOMAIN text : text[n] = part

\* C15: a request answered with a status outside 2xx has ended its
\* invocation (or the console run) with an error whose message contains the
\* HTTP status and the raw body of the response; no result was made from the
\* body.
C15_HttpErrorReported ==
  /\ \A i \in Slots :
       inv[i].resp.status = "http_error"
         => /\ inv[i].pc = "done" /\ inv[i].result.kind = "error"
            /\ Contains(inv[i].result.text, inv[i].resp.httpStatus)
            /\ Contains(inv[i].result.text, inv[i].resp.text)
  /\ cli.resp.status = "http_error"
       => /\ cli.pc = "done" /\ cli.result.kind = "error"
          /\ Contains(cli.result.text, cli.resp.httpStatus)
          /\ Contains(cli.result.text, cli.resp.text)

\* C15 witness: a REST request and a handshake request have been answered
\* 401 with a body.
C15_Witness ==
  /\ \E i \in Slots :
       /\ inv[i].req.endpoint = "api" /\ inv[i].resp.httpStatus = "401"
       /\ inv[i].resp.text # ""
  /\ \E i \in Slots :
       /\ inv[i].req.endpoint = "access_token" /\ inv[i].resp.httpStatus = "401"

RequestFailed(r) == r.status \in {"http_error", "network_error"}

\* C16: an invocation, or a console run, whose last response is a failure
\* (status outside 2xx, or fetch rejected) sends no request: neither the
\* step that receives the failure nor any later step of it raises its
\* number of requests.
C16_NoRetry ==
  [][/\ \A i \in Slots :
          RequestFailed(inv'[i].resp) => inv'[i].nreq <= inv[i].nreq
     /\ RequestFailed(cli'.resp) => cli'.nreq <= cli.nreq
    ]_vars

\* C16 witness: a search of type "all" whose foods request failed has
\* returned after that one request.
C16_Witness ==
  \E i \in Slots :
    /\ inv[i].tool = "search_nutrition" /\ inv[i].args.type = "all"
    /\ inv[i].step = "foods" /\ RequestFailed(inv[i].resp)
    /\ inv[i].pc = "done" /\ inv[i].nreq = 1

CarriesToken(authorization, token) ==
  authorization \in {<<"Bearer ", token>>, <<token>>}

\* What C20 says of a request when MCP_AUTH_TOKEN is configured: processed
\* with the token, answered 401 without anything done without it.
TokenChecked ==
  IF CarriesToken(http.authorization, env.MCP_AUTH_TOKEN)
    THEN http.status = 200 /\ (http.handled \/ http.connected)
  ELSE http.status = 401 /\ ~http.handled /\ ~http.connected

\* C20 as stated: with MCP_AUTH_TOKEN configured, every request to POST /mcp
\* and every request to /sse is answered 401, without message handling and
\* without a transport connection, unless its Authorization header carries
\* the token, and is processed when it does.
C20_TokenRequired ==
  (/\ Truthy(env.MCP_AUTH_TOKEN)
   /\ \/ http.url = "/mcp" /\ http.method = "POST"
      \/ http.url = "/sse")
    => TokenChecked

\* C20 amended: the same for POST /mcp and for every request to /sse that is
\* not an OPTIONS preflight; an OPTIONS request to /sse is answered 200
\* whatever its Authorization header, and connects no transport and handles
\* no message.
C20_TokenRequiredExceptPreflight ==
  Truthy(env.MCP_AUTH_TOKEN)
    => /\ (\/ http.url = "/mcp" /\ http.method = "POST"
           \/ http.url = "/sse" /\ http.method \in {"GET", "POST"})
            => TokenChecked
       /\ (http.url = "/sse" /\ http.method = "OPTIONS")
            => http.status = 200 /\ ~http.handled /\ ~http.connected

\* C20 witness: a GET /sse with a wrong bearer token has been answered 401.
C20_Witness ==
  /\ env.MCP_AUTH_TOKEN = "tok"
  /\ http.url = "/sse" /\ http.method = "GET"
  /\ http.authorization = <<"Bearer ", "bad">>
  /\ http.status = 401 /\ ~http.connected

\* The keys of a mapping in the order of their percent-encoded forms.
RECURSIVE ByEncodedKey(_)
ByEncodedKey(keys) ==
  IF keys = {} THEN <<>>
  ELSE LET first == CHOOSE k \in keys :
                      \A j \in keys \ {k} :
                        StringLess(PercentEncode(k), PercentEncode(j))
       IN  <<first>> \o ByEncodedKey(keys \ {first})

\* C17: the base string createSignatureBaseString returns is the method in
\* upper case, the encoded URL and the encoded list of the pairs
\* encoded-key=encoded-value, with the pairs in the lexicographic order of
\* their encoded keys.
C17_PairsOrderedByEncodedKey ==
  (fn.name = "createSignatureBaseString" /\ fn.returned)
    => LET parameters == fn.args[3]
           keys == ByEncodedKey(DOMAIN parameters)
           pairs == [n \in DOMAIN keys |->
                       PercentEncode(keys[n]) \o <<"=">>
                         \o PercentEncode(parameters[keys[n]])]
       IN  fn.value = Join(<<ToUpperCase(fn.args[1]), PercentEncode(fn.args[2]),
                             PercentEncode(Join(pairs, <<"&">>))>>, <<"&">>)

\* The calendar: days of a month, the dates that exist, and the day after a
\* date.
DaysInMonth(y, m) ==
  IF m = 2
    THEN IF y % 400 = 0 \/ (y % 4 = 0 /\ y % 100 # 0) THEN 29 ELSE 28
  ELSE IF m \in {4, 6, 9, 11} THEN 30 ELSE 31

CalendarDate(date) ==
  /\ Len(date) = 3
  /\ date[2] \in 1..12
  /\ date[3] \in 1..DaysInMonth(date[1], date[2])

DayAfter(date) ==
  IF date[3] < DaysInMonth(date[1], date[2])
    THEN <<date[1], date[2], date[3] + 1>>
  ELSE IF date[2] < 12 THEN <<date[1], date[2] + 1, 1>>
  ELSE <<date[1] + 1, 1, 1>>

\* The integer a decimal string denotes.
RECURSIVE DecimalValue(_)
DecimalValue(str) ==
  IF Head(str) = "-" THEN 0 - DecimalValue(Tail(str))
  ELSE IF Len(str) = 1 THEN CharCode(str[1]) - 48
  ELSE 10 * DecimalValue(SubSeq(str, 1, Len(str) - 1))
         + CharCode(str[Len(str)]) - 48

\* C19: for a date of the calendar dateToFatSecretFormat returns, without
\* an error, the decimal string of a number of days that is 0 for
\* 1970-01-01, 19723 for 2024-01-01, 19722 for 2023-12-31, and one less than
\* the number it returns for the day after.
C19_DaysSinceEpoch ==
  (fn.name = "dateToFatSecretFormat" /\ fn.returned
     /\ CalendarDate(fn.args[1]))
    => LET date == fn.args[1]
           days == DecimalValue(fn.value.text)
       IN  /\ fn.value.ok
           /\ \A n \in DOMAIN fn.value.text :
                fn.value.text[n] = "-" \/ CharCode(fn.value.text[n]) \in 48..57
           /\ date = <<1970, 1, 1>> => fn.value.text = <<"0">>
           /\ date = <<2024, 1, 1>>
                => fn.value.text = <<"1", "9", "7", "2", "3">>
           /\ date = <<2023, 12, 31>> => days = 19722
           /\ \A now \in NowDays :
                DecimalValue(DateToFatSecretFormat(DayAfter(date), now).text)
                  = days + 1

\* C19 witness: the function has returned "47540" for 2100-02-28, the
\* day before 2100-03-01.
C19_Witness ==
  /\ fn.name = "dateToFatSecretFormat" /\ fn.returned
  /\ fn.args[1] = <<2100, 2, 28>>
  /\ fn.value.text = <<"4", "7", "5", "4", "0">>

\* C21: a tools/call message that POST /mcp has accepted runs the handler
\* of the tool it names and is answered with the handler's result, not with
\* a text made up by the endpoint.
C21_ToolsCallRunsHandler ==
  (http.url = "/mcp" /\ http.method = "POST" /\ http.handled
     /\ http.message = "tools/call")
    => /\ \E i \in Slots : inv[i].pc # "idle"
       /\ http.answer # "result: placeholder"

\* C22: a search_nutrition call without the type argument that succeeds has
\* searched foods and recipes, with two provider requests, and returns the
\* result of type "all".
C22_DefaultTypeAll ==
  \A i \in Slots :
    (inv[i].tool = "search_nutrition" /\ inv[i].args.type = Undefined
       /\ inv[i].pc = "done" /\ inv[i].result.kind = "ok")
      => inv[i].nreq = 2 /\ inv[i].result.text = <<"all">>

\* C23: a search_nutrition call whose limit argument is outside 1..50 sends
\* no provider request and ends with InvalidRequest, and every search
\* request on record carries max_results between 1 and 50.
C23_LimitRange ==
  \A i \in Slots :
    inv[i].tool = "search_nutrition"
      => /\ (Len(inv[i].args.limit) = 1
               /\ inv[i].args.limit[1] \notin MinLimit..MaxLimit)
              => /\ inv[i].nreq = 0
                 /\ inv[i].pc = "done" => inv[i].result.code = "InvalidRequest"
         /\ inv[i].nreq > 0
              => inv[i].req.params.max_results \in MinLimit..MaxLimit

\* C24: the console sends the access-token request only from the verifier
\* prompt, which it reaches only after a request-token response with both
\* oauth_token and oauth_token_secret; the request carries a non-empty
\* verifier and is signed with the token and the token secret of that
\* response. A verifier prompt that sends nothing ends the run in an error
\* and leaves the files as they are.
C24_ConsoleLegsOrdered ==
  [][/\ (cli'.nreq > cli.nreq /\ cli'.step = "leg3")
          => /\ cli.pc = "verifier" /\ cli.step = "leg1"
             /\ cli.resp.status = "ok"
             /\ Truthy(cli.resp.oauth_token)
             /\ Truthy(cli.resp.oauth_token_secret)
             /\ Truthy(cli'.req.params.oauth_verifier)
             /\ cli'.req.endpoint = "access_token"
             /\ cli'.req.oauthToken = cli.resp.oauth_token
             /\ cli'.req.tokenSecret = cli.resp.oauth_token_secret
     /\ (cli.pc = "verifier" /\ cli'.pc # "verifier" /\ cli'.nreq = cli.nreq
           /\ cli'.pc # "idle")
          => /\ cli'.pc = "done" /\ cli'.result.kind = "error"
             /\ files' = files
     /\ (cli.pc = "fetch" /\ cli.step = "leg1" /\ cli'.pc = "verifier")
          => /\ Truthy(cli'.resp.oauth_token)
             /\ Truthy(cli'.resp.oauth_token_secret)
    ]_vars

\* C24 witness: the console has sent its access-token request, signed with
\* the request token rt1 and its secret.
C24_Witness ==
  /\ cli.pc = "fetch" /\ cli.step = "leg3" /\ cli.nreq = 2
  /\ cli.req.oauthToken = "rt1" /\ cli.req.tokenSecret = "rts1"

\* The three arguments that complete a flow are all present and non-empty.
CompletesFlow(args) ==
  /\ Truthy(args.verifier) /\ Truthy(args.requestToken)
  /\ Truthy(args.requestTokenSecret)

FileTokens(file) ==
  IF file.kind = "json" THEN TokensOf(file.data)
  ELSE <<Undefined, Undefined, Undefined>>

StartsLeg1(v) == v.tool = "authenticate_fatsecret" /\ ~CompletesFlow(v.args)

\* C26: a call of authenticate_fatsecret that starts a new flow leaves
\* accessToken, accessTokenSecret and userId as they were: in memory they
\* are the loaded ones after the handler has set the client credentials and
\* after the request-token response, successful or not; the text the save is
\* about to put in place of the file carries the token fields the file
\* holds, and the completed write leaves the file with them.
C26_NewFlowKeepsTokens ==
  [][\A i \in Slots :
       StartsLeg1(inv[i])
         => /\ Resumes(i, "load")
                 => TokensOf(config') = TokensOf(LoadConfig(config, ServerFile))
            /\ (inv[i].pc = "save" /\ inv'[i].pc = "write")
                 => TokensOf(inv[i].saveData.data) = FileTokens(ServerFile)
            /\ (inv[i].pc = "write" /\ files' # files)
                 => FileTokens(ServerFile') = TokensOf(inv[i].saveData.data)
            /\ Resumes(i, "fetch")
                 => /\ TokensOf(config') = TokensOf(config)
                    /\ files' = files
    ]_vars

\* C27: a call that completes a flow changes nothing the next invocation
\* would see before its response arrives - the files are as they were and a
\* load gives the credentials it gave before - and a response that is a
\* transport failure (a non-2xx status or a network failure) ends the call
\* with the files and the in-memory credentials unchanged; likewise in the
\* console from the verifier prompt on.
C27_FailedExchangeChangesNothing ==
  [][/\ \A i \in Slots :
          (inv[i].tool = "authenticate_fatsecret" /\ CompletesFlow(inv[i].args))
            => /\ Resumes(i, "load")
                    => /\ files' = files
                       /\ LoadConfig(config', ServerFile')
                            = LoadConfig(config, ServerFile)
               /\ (Resumes(i, "fetch") /\ RequestFailed(inv'[i].resp))
                    => /\ inv'[i].pc = "done" /\ inv'[i].result.kind = "error"
                       /\ files' = files
                       /\ config' = config
     /\ (cli.pc = "verifier" /\ cli'.pc # "verifier")
          => files' = files /\ cli'.config = cli.config
     /\ (cli.pc = "fetch" /\ cli.step = "leg3" /\ cli'.pc # "fetch"
           /\ RequestFailed(cli'.resp))
          => /\ cli'.pc = "done" /\ cli'.result.kind = "error"
             /\ files' = files
             /\ cli'.config = cli.config
    ]_vars

\* C28: an invocation signs with the consumer key and secret it has loaded
\* or was given, and saves them: the request-token request that follows the
\* save of a new flow is signed with the key and secret of the saved text,
\* the second request of a search with those of its first request, and the
\* text saved after the access-token response has the key and secret that
\* the access-token request was signed with.
C28_InvocationsIsolated ==
  [][\A i \in Slots :
       /\ (inv[i].pc = "write" /\ inv[i].step = "leg1"
             /\ inv'[i].nreq > inv[i].nreq)
            => /\ inv'[i].req.consumerKey = inv[i].saveData.data.clientId
               /\ inv'[i].req.clientSecret = inv[i].saveData.data.clientSecret
       /\ (inv[i].pc = "fetch" /\ inv'[i].nreq > inv[i].nreq)
            => /\ inv'[i].req.consumerKey = inv[i].req.consumerKey
               /\ inv'[i].req.clientSecret = inv[i].req.clientSecret
       /\ (Resumes(i, "fetch") /\ inv'[i].pc = "save")
            => /\ inv'[i].saveData.data.clientId = inv[i].req.consumerKey
               /\ inv'[i].saveData.data.clientSecret = inv[i].req.clientSecret
    ]_vars

PublicTools == {"search_nutrition", "get_nutrition_details"}

\* C29: in every request makeApiRequest builds, oauth_token is signed if and
\* only if the signing key has a non-empty token secret: a search or detail
\* request has no oauth_token and an empty token secret, also when the
\* credentials hold an access token, and a request of a user-scoped tool
\* carries the access token of the credentials and is signed with their
\* access-token secret.
C29_TokenIffTokenSecret ==
  [][\A i \in Slots :
       (inv'[i].nreq > inv[i].nreq /\ inv'[i].req.endpoint = "api")
         => LET req == inv'[i].req
            IN /\ (req.oauthToken # Undefined) <=> (req.tokenSecret # "")
               /\ inv'[i].tool \in PublicTools
                    => req.oauthToken = Undefined /\ req.tokenSecret = ""
               /\ inv'[i].tool \in UserScopedTools
                    => /\ Truthy(req.oauthToken) /\ Truthy(req.tokenSecret)
                       /\ req.oauthToken = config'.accessToken
                       /\ req.tokenSecret = config'.accessTokenSecret
    ]_vars

\* C29 witness: a search request is out, without oauth_token and with an
\* empty token secret, while the credentials hold an access token and its
\* secret.
C29_Witness ==
  \E i \in Slots :
    /\ inv[i].tool = "search_nutrition" /\ inv[i].pc = "fetch"
    /\ inv[i].req.oauthToken = Undefined /\ inv[i].req.tokenSecret = ""
    /\ config.accessToken = "at1" /\ config.accessTokenSecret = "ats1"
    /\ ServerFile.kind = "json" /\ ServerFile.data.accessToken = "at1"

Running(v) == v.pc \notin {"idle", "done"}

\* C30: an invocation sends at most two provider requests, waits only for
\* the readFile of loadConfig, the writeFile of saveConfig or the answer to a
\* provider request, and has a result or an error when it has returned;
\* when file operations complete and provider requests are answered or fail,
\* every invocation that has started returns.
C30_InvocationReturns ==
  /\ [](\A i \in Slots :
          /\ inv[i].nreq <= Cardinality({"foods.search", "recipes.search"})
          /\ Running(inv[i]) => inv[i].pc \in {"load", "save", "write", "fetch"}
          /\ inv[i].pc = "done" => inv[i].result.kind \in {"ok", "error"})
  /\ \A i \in Slots : Running(inv[i]) ~> (inv[i].pc = "done")

\* C30 witness: a search of type "all" has returned after two provider
\* requests.
C30_Witness ==
  \E i \in Slots :
    /\ inv[i].tool = "search_nutrition" /\ inv[i].pc = "done"
    /\ inv[i].nreq = 2 /\ inv[i].result.kind = "ok"

====
